---- MODULE Spec2Model ----
(***************************************************************************)
(* State-machine model of streamlit_app.py, the microgrid dashboard.       *)
(*                                                                         *)
(* One run of the script from top to bottom is one render cycle.  The      *)
(* script position is pc; the cycle's locals are model_info, sensor_data,  *)
(* data and prediction; the two st.cache_data(ttl=5) stores survive from   *)
(* one cycle to the next.  Time is counted in whole seconds; an entry's    *)
(* age is the whole seconds since it was stored, capped at the ttl (an     *)
(* entry of age >= ttl is expired, whatever its exact age).                *)
(*                                                                         *)
(* Quantities: powers and loads are in thousandths of a kW, voltages in    *)
(* volts; a value displayed with the format ".2f" is in hundredths.  The   *)
(* arithmetic is exact: the rounding of binary floating point is not       *)
(* modelled, except where ".2f" has to choose between two neighbours.      *)
(*                                                                         *)
(* Streamlit: a press of the button runs the script again with st.button   *)
(* returning True; st.rerun() ends the run and starts the next one with    *)
(* the button reset; an uncaught exception ends the run.  One browser      *)
(* session is modelled, and the slider is read at the start of each run;   *)
(* the rerun Streamlit starts when the slider is moved is not modelled.    *)
(***************************************************************************)
EXTENDS Integers, FiniteSets, Sequences, TLC

VARIABLES
    pc,               \* position of the script run
    refresh_interval, \* line 124: value of the slider in this run
    clicked,          \* line 340: the retry button reports a click in this run
    model_info,       \* line 129
    sensor_data,      \* line 140
    data,             \* line 151
    prediction,       \* line 241
    cacheModel,       \* st.cache_data store of fetch_model_info
    cacheSensor,      \* st.cache_data store of fetch_sensor_data
    req,              \* HTTP requests issued in this run, per endpoint
    lastCall,         \* the last execution of a fetcher body: outcome and result
    view,             \* elements rendered in this run
    gridStatus,       \* lines 231-234: status shown in this run
    balance,          \* lines 325-330: energy summary line shown in this run
    exc               \* uncaught exception that ended the run ("none" if none)

vars == <<pc, refresh_interval, clicked, model_info, sensor_data, data,
          prediction, cacheModel, cacheSensor, req, lastCall, view,
          gridStatus, balance, exc>>

----------------------------------------------------------------------------
(* Program constants *)

\* @st.cache_data(ttl=5)
TTL == 5
\* st.slider("Auto-refresh (seconds)", 5, 60, 10)
SliderMin == 5
SliderMax == 60
SliderDefault == 10
\* data['grid']['voltage'] > 220 and data['grid']['voltage'] < 240
GridLow == 220
GridHigh == 240

(* Bounds of the model *)

\* an HTTP request takes 0..MaxReqDur seconds
MaxReqDur == 1
\* whole-second boundaries crossed between two adjacent statements
MaxGap == 1

RefreshChoices == {SliderMin, SliderDefault, SliderMax}
ReqDurs == 0..MaxReqDur
Gaps == 0..MaxGap

----------------------------------------------------------------------------
(* Decoded JSON values, by the shape the script distinguishes.             *)
(*   kind "none"    : None (absent, or a body of null)                     *)
(*   kind "falsy"   : a falsy value other than None: {}, [], 0, "", false  *)
(*   kind "nondict" : a truthy value with no .get: a list, string, number  *)
(*   kind "dict"    : a non-empty object                                   *)

\* ModelInfo: loaded is the truthiness of .get('model_loaded')
ModelVal(k, l) == [kind |-> k, loaded |-> l]
NoModel == ModelVal("none", FALSE)
ModelBodies ==
    { NoModel, ModelVal("falsy", FALSE), ModelVal("nondict", FALSE),
      ModelVal("dict", TRUE), ModelVal("dict", FALSE) }

\* SensorSnapshot: complete says that every field the script reads is there
\* with a number the widgets accept; sp, bp, load, volt are solar.power,
\* battery.power, load and grid.voltage
SensorVal(k, c, s, b, l, v) ==
    [kind |-> k, complete |-> c, sp |-> s, bp |-> b, load |-> l, volt |-> v]
NoSensor == SensorVal("none", FALSE, 0, 0, 0, 0)
Snapshot(s, b, l, v) == SensorVal("dict", TRUE, s, b, l, v)
SensorBodies ==
    { NoSensor,
      SensorVal("falsy", FALSE, 0, 0, 0, 0),
      SensorVal("nondict", FALSE, 0, 0, 0, 0),
      SensorVal("dict", FALSE, 0, 0, 0, 0),
      Snapshot(3200, 1100, 5000, 230),
      Snapshot(0, 1100, 1100, 240) }

\* PredictionResult: status is .get('status'); usable says that 'prediction'
\* formats as a number and 'features_used' has a length
PredVal(k, s, u) == [kind |-> k, status |-> s, usable |-> u]
NoPred == PredVal("none", "", FALSE)
PredBodies ==
    { NoPred, PredVal("falsy", "", FALSE), PredVal("nondict", "", FALSE),
      PredVal("dict", "success", TRUE), PredVal("dict", "success", FALSE),
      PredVal("dict", "error", TRUE), PredVal("dict", "", TRUE) }

\* Python truthiness of a decoded value
Truthy(v) == v.kind \in {"nondict", "dict"}

\* Outcomes of one HTTP exchange:
\*   ok200   : status 200, body decodes         non200 : any other status
\*   badjson : status 200, response.json() raises
\*   timeout, neterror : requests.get / requests.post raises
Outcomes == {"ok200", "non200", "badjson", "timeout", "neterror"}

----------------------------------------------------------------------------
(* The three fetcher bodies.  Each yields what the caller gets: the value  *)
(* returned, whether an exception left the function, and whether st.error  *)
(* was called inside it.                                                   *)

Returned(v, d) == [raised |-> FALSE, value |-> v, diag |-> d]
Raised(none) == [raised |-> TRUE, value |-> none, diag |-> FALSE]

\* fetch_sensor_data without its try/except
fetch_sensor_data_unguarded(outcome, body) ==
    IF outcome = "ok200" THEN Returned(body, FALSE)
    ELSE IF outcome = "non200" THEN Returned(NoSensor, FALSE)
    ELSE Raised(NoSensor)

fetch_sensor_data(outcome, body) ==
    IF outcome = "ok200" THEN Returned(body, FALSE)
    ELSE IF outcome = "non200" THEN Returned(NoSensor, FALSE)
    ELSE Returned(NoSensor, TRUE)     \* except Exception: st.error; return None

fetch_model_info(outcome, body) ==
    IF outcome = "ok200" THEN Returned(body, FALSE)
    ELSE IF outcome = "non200" THEN Returned(NoModel, FALSE)
    ELSE Returned(NoModel, FALSE)     \* bare except: return None

make_prediction(outcome, body) ==
    IF outcome = "ok200" THEN Returned(body, FALSE)
    ELSE IF outcome = "non200" THEN Returned(NoPred, FALSE)
    ELSE Returned(NoPred, TRUE)       \* except Exception: st.error; return None

----------------------------------------------------------------------------
(* st.cache_data(ttl=5): one entry per fetcher (neither takes arguments).  *)
(* The entry keeps the returned value, None included, and the elements the *)
(* function rendered, which a hit replays.                                 *)

Entry(p, v, d, a) == [present |-> p, value |-> v, diag |-> d, age |-> a]

CacheHit(e) == e.present /\ e.age < TTL

Min(a, b) == IF a < b THEN a ELSE b

\* the entry after d more seconds
Aged(e, d) == [e EXCEPT !.age = Min(TTL, e.age + d)]

\* record of one execution of a fetcher body
NoCall == [fn |-> "none", outcome |-> "none", body |-> NoModel, result |-> NoModel,
           raised |-> FALSE]
Call(f, o, b, r) ==
    [fn |-> f, outcome |-> o, body |-> b, result |-> r.value, raised |-> r.raised]

\* the bodies an exchange with outcome o can deliver to response.json()
Delivered(o, bodies, none) == IF o = "ok200" THEN bodies ELSE {none}

NoReq == [model |-> 0, sensor |-> 0, predict |-> 0]
NoBalance == [label |-> "none", shown |-> 0]

\* A call of the memoized fetch_model_info after e more seconds: a hit
\* returns the entry; a miss runs the body (exchange outcome o, body b,
\* lasting d seconds) and stores what it returned.
ModelCall(e, o, b, d) ==
    LET cm == Aged(cacheModel, e)
        cs == Aged(cacheSensor, e)
        r  == fetch_model_info(o, b)
    IN  IF CacheHit(cm)
        THEN [value |-> cm.value, diag |-> cm.diag, raised |-> FALSE,
              cm |-> cm, cs |-> cs, req |-> req, call |-> lastCall]
        ELSE [value |-> r.value, diag |-> r.diag, raised |-> r.raised,
              cm |-> IF r.raised THEN Aged(cm, d) ELSE Entry(TRUE, r.value, r.diag, 0),
              cs |-> Aged(cs, d),
              req |-> [req EXCEPT !.model = @ + 1],
              call |-> Call("fetch_model_info", o, b, r)]

\* A call of the memoized fetch_sensor_data, likewise
SensorCall(e, o, b, d) ==
    LET cm == Aged(cacheModel, e)
        cs == Aged(cacheSensor, e)
        r  == fetch_sensor_data(o, b)
    IN  IF CacheHit(cs)
        THEN [value |-> cs.value, diag |-> cs.diag, raised |-> FALSE,
              cm |-> cm, cs |-> cs, req |-> req, call |-> lastCall]
        ELSE [value |-> r.value, diag |-> r.diag, raised |-> r.raised,
              cm |-> Aged(cm, d),
              cs |-> IF r.raised THEN Aged(cs, d) ELSE Entry(TRUE, r.value, r.diag, 0),
              req |-> [req EXCEPT !.sensor = @ + 1],
              call |-> Call("fetch_sensor_data", o, b, r)]

----------------------------------------------------------------------------
(* Rendering rules *)

\* line 130: model_info and model_info.get('model_loaded')
ModelActive(mi) == Truthy(mi) /\ mi.loaded

\* lines 141 and 153: if sensor_data: / if data:
ShowAlways(d) == TRUE

HasData(d) == Truthy(d)

Init ==
    /\ pc = "slider"
    /\ refresh_interval = SliderDefault
    /\ clicked = FALSE
    /\ model_info = NoModel
    /\ sensor_data = NoSensor
    /\ data = NoSensor
    /\ prediction = NoPred
    /\ cacheModel = Entry(FALSE, NoModel, FALSE, 0)
    /\ cacheSensor = Entry(FALSE, NoSensor, FALSE, 0)
    /\ req = NoReq
    /\ lastCall = NoCall
    /\ view = {}
    /\ gridStatus = "none"
    /\ balance = NoBalance
    /\ exc = "none"

\* The script run starts (lines 1-124): nothing of the previous run's
\* output or locals is kept; the slider yields the user's setting.
ReadSlider ==
    /\ pc = "slider"
    /\ \E s \in RefreshChoices : refresh_interval' = s
    /\ pc' = "model_info"
    /\ model_info' = NoModel
    /\ sensor_data' = NoSensor
    /\ data' = NoSensor
    /\ prediction' = NoPred
    /\ req' = NoReq
    /\ view' = {}
    /\ gridStatus' = "none"
    /\ balance' = NoBalance
    /\ UNCHANGED <<clicked, cacheModel, cacheSensor, lastCall, exc>>

\* An exception leaves the script: the run ends, Streamlit shows the trace
Crash(where, shown) ==
    /\ pc' = "crashed"
    /\ exc' = where
    /\ view' = shown \cup {"exception_trace"}

\* lines 129-134
SidebarModel ==
    /\ pc = "model_info"
    /\ \E e \in Gaps, o \in Outcomes, d \in ReqDurs :
         \E b \in Delivered(o, ModelBodies, NoModel) :
            LET c == ModelCall(e, o, b, d) IN
            /\ cacheModel' = c.cm
            /\ cacheSensor' = c.cs
            /\ req' = c.req
            /\ lastCall' = c.call
            /\ model_info' = c.value
            /\ IF c.raised THEN Crash("fetch_model_info", view)
               ELSE IF c.value.kind = "nondict"
                    THEN Crash("line130", view)     \* no .get
               ELSE /\ pc' = "sidebar_sensor"
                    /\ exc' = exc
                    /\ view' = view \cup
                         (IF ModelActive(c.value) THEN {"sb_model_active"}
                          ELSE {"sb_model_not_loaded"})
    /\ UNCHANGED <<refresh_interval, clicked, sensor_data, data, prediction,
                   gridStatus, balance>>

Diag(c, name) == IF c.diag THEN {name} ELSE {}

\* lines 139-144
SidebarSensor ==
    /\ pc = "sidebar_sensor"
    /\ \E e \in Gaps, o \in Outcomes, d \in ReqDurs :
         \E b \in Delivered(o, SensorBodies, NoSensor) :
            LET c == SensorCall(e, o, b, d) IN
            /\ cacheModel' = c.cm
            /\ cacheSensor' = c.cs
            /\ req' = c.req
            /\ lastCall' = c.call
            /\ sensor_data' = c.value
            /\ IF c.raised THEN Crash("fetch_sensor_data", view)
               ELSE /\ pc' = "main_fetch"
                    /\ exc' = exc
                    /\ view' = view \cup Diag(c, "sb_diag_sensor") \cup
                         (IF HasData(c.value) THEN {"sb_connected"}
                          ELSE {"sb_disconnected"})
    /\ UNCHANGED <<refresh_interval, clicked, model_info, data, prediction,
                   gridStatus, balance>>

\* lines 151-153
FetchMain ==
    /\ pc = "main_fetch"
    /\ \E e \in Gaps, o \in Outcomes, d \in ReqDurs :
         \E b \in Delivered(o, SensorBodies, NoSensor) :
            LET c == SensorCall(e, o, b, d) IN
            /\ cacheModel' = c.cm
            /\ cacheSensor' = c.cs
            /\ req' = c.req
            /\ lastCall' = c.call
            /\ data' = c.value
            /\ IF c.raised THEN Crash("fetch_sensor_data", view)
               ELSE /\ pc' = IF HasData(c.value) THEN "rows" ELSE "error_panel"
                    /\ exc' = exc
                    /\ view' = view \cup Diag(c, "diag_sensor")
    /\ UNCHANGED <<refresh_interval, clicked, model_info, sensor_data,
                   prediction, gridStatus, balance>>

\* lines 231-234
GridStatusClosed(v) == IF v >= GridLow /\ v <= GridHigh THEN "Normal" ELSE "Abnormal"

GridStatus(v) == IF v > GridLow /\ v < GridHigh THEN "Normal" ELSE "Abnormal"

\* lines 154-234: caption, ROW 1 metric tiles, ROW 2 detail panels
RenderRows ==
    /\ pc = "rows"
    /\ IF data.kind = "nondict"
       THEN /\ Crash("line154", view)              \* data.get: no such attribute
            /\ gridStatus' = gridStatus
       ELSE IF ~data.complete
       THEN /\ Crash("rows", view \cup {"caption"}) \* KeyError, TypeError, ValueError
            /\ gridStatus' = gridStatus
       ELSE /\ pc' = "predict"
            /\ exc' = exc
            /\ view' = view \cup {"caption", "metric_tiles", "detail_panels",
                                  "grid_status"}
            /\ gridStatus' = GridStatus(data.volt)
    /\ UNCHANGED <<refresh_interval, clicked, model_info, sensor_data, data,
                   prediction, cacheModel, cacheSensor, req, lastCall, balance>>

\* line 241: make_prediction is not memoized, every call is a request
Predict ==
    /\ pc = "predict"
    /\ \E o \in Outcomes, d \in ReqDurs :
         \E b \in Delivered(o, PredBodies, NoPred) :
            LET r == make_prediction(o, b) IN
            /\ cacheModel' = Aged(cacheModel, d)
            /\ cacheSensor' = Aged(cacheSensor, d)
            /\ req' = [req EXCEPT !.predict = @ + 1]
            /\ lastCall' = Call("make_prediction", o, b, r)
            /\ prediction' = r.value
            /\ IF r.raised THEN Crash("make_prediction", view)
               ELSE /\ pc' = "pred_render"
                    /\ exc' = exc
                    /\ view' = view \cup Diag(r, "diag_predict")
    /\ UNCHANGED <<refresh_interval, clicked, model_info, sensor_data, data,
                   gridStatus, balance>>

\* line 243: prediction and prediction.get('status') == 'success'
PredictionOkAnyStatus(p) == Truthy(p)

PredictionOk(p) == Truthy(p) /\ p.status = "success"

\* lines 243-279: ROW 3
RenderPrediction ==
    /\ pc = "pred_render"
    /\ IF prediction.kind = "nondict"
       THEN Crash("line243", view)                 \* prediction.get: no such attribute
       ELSE IF PredictionOk(prediction)
       THEN IF ~prediction.usable
            THEN Crash("line250", view)            \* f"{pred_value:.2f}" fails
            ELSE /\ pc' = "balance"
                 /\ exc' = exc
                 /\ view' = view \cup {"pred_metric", "gauge_chart", "pred_details"}
       ELSE /\ pc' = "balance"
            /\ exc' = exc
            /\ view' = view \cup {"pred_warning"}
    /\ UNCHANGED <<refresh_interval, clicked, model_info, sensor_data, data,
                   prediction, cacheModel, cacheSensor, req, lastCall,
                   gridStatus, balance>>

Abs(x) == IF x < 0 THEN -x ELSE x

\* f"{x:.2f}" of x >= 0 thousandths, in hundredths: rounded to the nearest;
\* a value halfway between two goes the way its binary representation lies
Fmt2(x) ==
    IF x % 10 < 5 THEN {x \div 10}
    ELSE IF x % 10 > 5 THEN {x \div 10 + 1}
    ELSE {x \div 10, x \div 10 + 1}

\* lines 318-320
Surplus(d) == (d.sp + d.bp) - d.load

\* lines 325-330
EnergyLabelNoBalance(surplus) == IF surplus >= 0 THEN "Surplus" ELSE "Deficit"

EnergyLabel(surplus) ==
    IF surplus > 0 THEN "Surplus"
    ELSE IF surplus < 0 THEN "Deficit"
    ELSE "Balance"

\* lines 283-330: ROW 4
RenderBalance ==
    /\ pc = "balance"
    /\ pc' = "sleep"
    /\ view' = view \cup {"energy_chart", "energy_summary"}
    /\ LET surplus == Surplus(data)
           label == EnergyLabel(surplus)
       IN  \E shown \in (IF label = "Balance" THEN {0} ELSE Fmt2(Abs(surplus))) :
               balance' = [label |-> label, shown |-> shown]
    /\ UNCHANGED <<refresh_interval, clicked, model_info, sensor_data, data,
                   prediction, cacheModel, cacheSensor, req, lastCall,
                   gridStatus, exc>>

\* lines 333-334: time.sleep(refresh_interval); st.rerun()
AutoRefresh ==
    /\ pc = "sleep"
    /\ cacheModel' = Aged(cacheModel, refresh_interval)
    /\ cacheSensor' = Aged(cacheSensor, refresh_interval)
    /\ pc' = "slider"
    /\ clicked' = FALSE
    /\ UNCHANGED <<refresh_interval, model_info, sensor_data, data, prediction,
                   req, lastCall, view, gridStatus, balance, exc>>

\* lines 340-341: if st.button(...): st.rerun()
AlwaysRerun(c) == "slider"

AfterErrorPanel(c) == IF c THEN "slider" ELSE "idle"

\* lines 336-341: the else branch
ErrorPanel ==
    /\ pc = "error_panel"
    /\ view' = view \cup {"error_notice", "api_url_info", "retry_button"}
    /\ pc' = AfterErrorPanel(clicked)
    /\ clicked' = FALSE
    /\ UNCHANGED <<refresh_interval, model_info, sensor_data, data, prediction,
                   cacheModel, cacheSensor, req, lastCall, gridStatus, balance,
                   exc>>

\* The script has ended on the error panel; a second passes
Tick ==
    /\ pc = "idle"
    /\ cacheModel' = Aged(cacheModel, 1)
    /\ cacheSensor' = Aged(cacheSensor, 1)
    /\ UNCHANGED <<pc, refresh_interval, clicked, model_info, sensor_data, data,
                   prediction, req, lastCall, view, gridStatus, balance, exc>>

\* The user presses the retry button: Streamlit runs the script again, and
\* in that run st.button returns True
ClickRetry ==
    /\ pc = "idle"
    /\ pc' = "slider"
    /\ clicked' = TRUE
    /\ UNCHANGED <<refresh_interval, model_info, sensor_data, data, prediction,
                   cacheModel, cacheSensor, req, lastCall, view, gridStatus,
                   balance, exc>>

Next ==
    \/ ReadSlider
    \/ SidebarModel
    \/ SidebarSensor
    \/ FetchMain
    \/ RenderRows
    \/ Predict
    \/ RenderPrediction
    \/ RenderBalance
    \/ AutoRefresh
    \/ ErrorPanel
    \/ Tick
    \/ ClickRetry

Spec == Init /\ [][Next]_vars

----------------------------------------------------------------------------
(* Rendering of one snapshot, over a range of readings: the run is taken   *)
(* from the point where line 151 has returned the snapshot (first run of   *)
(* the process, both fetches answered 200) to the auto-refresh wait.       *)

SolarPowers == {0, 3200, 3204}
BatteryPowers == {-1100, 1100, 1105}
Loads == {1100, 4300, 5000}
Volts == {219, 220, 221, 239, 240, 241}

InitRender ==
    \E s \in SolarPowers, b \in BatteryPowers, l \in Loads, v \in Volts :
        LET snap == Snapshot(s, b, l, v)
            mi == ModelVal("dict", TRUE)
        IN  /\ pc = "rows"
            /\ refresh_interval = SliderDefault
            /\ clicked = FALSE
            /\ model_info = mi
            /\ sensor_data = snap
            /\ data = snap
            /\ prediction = NoPred
            /\ cacheModel = Entry(TRUE, mi, FALSE, 0)
            /\ cacheSensor = Entry(TRUE, snap, FALSE, 0)
            /\ req = [model |-> 1, sensor |-> 1, predict |-> 0]
            /\ lastCall = Call("fetch_sensor_data", "ok200", snap, Returned(snap, FALSE))
            /\ view = {"sb_model_active", "sb_connected"}
            /\ gridStatus = "none"
            /\ balance = NoBalance
            /\ exc = "none"

NextRender ==
    \/ RenderRows
    \/ Predict
    \/ RenderPrediction
    \/ RenderBalance

SpecRender == InitRender /\ [][NextRender]_vars

----------------------------------------------------------------------------
(* Properties *)

SidebarElems ==
    {"sb_model_active", "sb_model_not_loaded", "sb_diag_sensor", "sb_connected",
     "sb_disconnected"}

\* what the main content area holds
MainArea == view \ SidebarElems

\* exceptions that end a run before line 151 has returned
EarlyExc == {"fetch_model_info", "line130", "fetch_sensor_data"}

\* line 151 has returned in the run the state belongs to (at "slider" the
\* state is still that of the run that has just ended)
MainFetched ==
    /\ pc \notin {"model_info", "sidebar_sensor", "main_fetch"}
    /\ pc = "slider" => view # {}
    /\ pc = "crashed" => exc \notin EarlyExc

\* C1: in a run whose sensor fetch (line 151) returned None, the main area
\* holds nothing but the error notice (with the API address and, if the
\* fetcher emitted one, its diagnostic) and the retry button; no metric
\* tile, detail panel, grid status, prediction, chart or energy summary is
\* rendered and no prediction request is issued.
C1_AbsentShowsOnlyErrorPanel ==
    (MainFetched /\ data.kind = "none") =>
        /\ pc \in {"error_panel", "idle", "slider"}
        /\ MainArea \subseteq {"diag_sensor", "error_notice", "api_url_info",
                               "retry_button"}
        /\ pc # "error_panel" => {"error_notice", "retry_button"} \subseteq view
        /\ req.predict = 0
        /\ gridStatus = "none"
        /\ balance = NoBalance

C1_Witness ==
    /\ pc = "idle"
    /\ data.kind = "none"
    /\ {"error_notice", "retry_button"} \subseteq view

\* C2: whenever fetch_model_info reported model_loaded = false in a run, the
\* prediction section of that run shows the static warning and neither the
\* prediction metric nor the gauge chart, whatever make_prediction returned.
C2_NotLoadedShowsWarning ==
    (model_info.kind = "dict" /\ ~model_info.loaded) =>
        /\ view \cap {"pred_metric", "gauge_chart"} = {}
        /\ pc \in {"balance", "sleep"} => "pred_warning" \in view

\* C3: a fetcher body never raises to its caller; it returns None when the
\* endpoint answers with a status other than 200, when the request times out
\* or fails at the network level and when the body of a 200 response does
\* not decode, and it returns the decoded body on a 200 response that does.
C3_FetchersNeverRaise ==
    lastCall.fn # "none" =>
        /\ ~lastCall.raised
        /\ exc \notin {"fetch_sensor_data", "fetch_model_info", "make_prediction"}
        /\ lastCall.outcome # "ok200" => lastCall.result.kind = "none"
        /\ lastCall.outcome = "ok200" => lastCall.result = lastCall.body

C3_Witness ==
    /\ lastCall.fn = "fetch_sensor_data"
    /\ lastCall.outcome = "badjson"
    /\ lastCall.result = NoSensor
    /\ pc = "main_fetch"
    /\ sensor_data = NoSensor

\* C4: whatever the three fetches return, no exception leaves the run.
C4_NoExceptionPropagates ==
    pc # "crashed" /\ exc = "none"

\* C5: a run in which sensor data was present ends in the auto-refresh wait
\* (never in an exception), and when the wait is over both memoized entries
\* have expired, so that the next run requests the snapshot and the model
\* status anew (the prediction is requested in every run).
C5_DataRunWaitsAndRefetches ==
    /\ (MainFetched /\ HasData(data)) =>
            pc \in {"rows", "predict", "pred_render", "balance", "sleep", "slider"}
    /\ (pc = "slider" /\ "energy_summary" \in view) =>
            (~CacheHit(cacheModel) /\ ~CacheHit(cacheSensor))
    /\ (pc \in {"sleep", "slider"} /\ "energy_summary" \in view) => req.predict = 1

PredFailed(p) == p.kind \in {"none", "falsy"} \/ (p.kind = "dict" /\ p.status # "success")

\* C7: in a run with sensor data in which make_prediction returned None or a
\* result whose status is not "success", neither the gauge chart nor the
\* prediction metric is rendered and the warning is shown, the metric tiles,
\* the detail panels and the energy balance are rendered, and the run goes
\* on to the auto-refresh wait.
C7_PredictionFailureKeepsMetrics ==
    /\ []((req.predict = 1 /\ PredFailed(prediction)) =>
            /\ pc \in {"pred_render", "balance", "sleep", "slider"}
            /\ {"metric_tiles", "detail_panels", "grid_status"} \subseteq view
            /\ view \cap {"pred_metric", "gauge_chart", "pred_details"} = {}
            /\ pc # "pred_render" => "pred_warning" \in view
            /\ pc \in {"sleep", "slider"} =>
                    {"energy_chart", "energy_summary"} \subseteq view)
    /\ [][(pc = "pred_render" /\ PredFailed(prediction)) => pc' = "balance"]_vars
    /\ [][pc = "balance" => pc' = "sleep"]_vars

C7_Witness ==
    /\ pc = "sleep"
    /\ prediction.kind = "dict"
    /\ prediction.status = "error"
    /\ {"metric_tiles", "pred_warning", "energy_summary"} \subseteq view

\* C8: with surplus = solar.power + battery.power - load, the energy summary
\* shows exactly one of Surplus (surplus > 0, with the value surplus),
\* Deficit (surplus < 0, with the value |surplus|) and Balance (surplus = 0);
\* values are shown to two decimals.  3.2, 1.1 and 5.0 show Deficit 0.70.
C8_EnergyBalanceLabel ==
    "energy_summary" \in view =>
        LET s == data.sp + data.bp - data.load IN
        /\ balance.label \in {"Surplus", "Deficit", "Balance"}
        /\ balance.label = "Surplus" <=> s > 0
        /\ balance.label = "Deficit" <=> s < 0
        /\ balance.label = "Balance" <=> s = 0
        /\ balance.label = "Surplus" =>
                (10 * balance.shown - s <= 5 /\ s - 10 * balance.shown <= 5)
        /\ balance.label = "Deficit" =>
                (10 * balance.shown + s <= 5 /\ (-s) - 10 * balance.shown <= 5)
        /\ (data.sp = 3200 /\ data.bp = 1100 /\ data.load = 5000) =>
                balance = [label |-> "Deficit", shown |-> 70]

C8_Witness ==
    /\ "energy_summary" \in view
    /\ data.sp = 3200 /\ data.bp = 1100 /\ data.load = 5000
    /\ balance = [label |-> "Deficit", shown |-> 70]

\* C9: the grid status shown is Normal if and only if 220 < voltage < 240,
\* and Abnormal otherwise; 220 and 240 both show Abnormal.
C9_GridStatusOpenInterval ==
    "grid_status" \in view =>
        /\ gridStatus \in {"Normal", "Abnormal"}
        /\ gridStatus = "Normal" <=> (220 < data.volt /\ data.volt < 240)
        /\ data.volt \in {220, 240} => gridStatus = "Abnormal"

C9_Witness ==
    /\ "grid_status" \in view
    /\ data.volt = 240
    /\ gridStatus = "Abnormal"

\* C10: the two fetch_sensor_data calls of one run (lines 140 and 151) cause
\* at most one sensor request and return the same value, so that the sidebar
\* shows Connected exactly when the main area shows data.
C10_SidebarAgreesWithMain ==
    MainFetched =>
        /\ req.sensor <= 1
        /\ sensor_data = data
        /\ "sb_connected" \in view <=> HasData(data)

====
